---- MODULE Spec2Model ----
(***************************************************************************)
(* Model of lib/geolocation.js: the permission-gated wrapper around the    *)
(* Firefox geolocation service (GeolocationClass).  The state is the       *)
(* private namespace of the singleton (allowed, options, watchID,          *)
(* position, address), the persisted allowGeolocation preference, the      *)
(* deferreds handed out by getCurrentPosition()/watchPosition(), and the   *)
(* service's registrations, whose callbacks are the closures created at    *)
(* lines 256-263 and 302-309.                                              *)
(***************************************************************************)
EXTENDS Integers, Sequences, FiniteSets, TLC

\* ---- bounds ----
MaxSteps == 3      \* calls of getCurrentPosition()/watchPosition() plus callbacks delivered
NumSamples == 2    \* distinct nsIDOMGeoPosition objects the service can hand out

\* ---- values ----
null == -1         \* JS null (watchID, position, address)
undefined == -2    \* JS undefined (a property the object does not have)
TypeError == -3    \* the read threw a TypeError instead of yielding a value
EmptyString == -4  \* the JS string ""
DefaultTimeout == 15000
Timeouts == {DefaultTimeout, 5000}

SampleRefs == 1..NumSamples

\* nsIDOMGeoPositionError as delivered by the service: the code plus the
\* interface constants the object carries.
PositionError(code) ==
  [code |-> code, PERMISSION_DENIED |-> 1, POSITION_UNAVAILABLE |-> 2,
   TIMEOUT |-> 3, message |-> "provider"]

\* const ALLOWED_ERROR = { code : 1, message : ... }: a plain object, so the
\* interface constants are undefined on it.
ALLOWED_ERROR ==
  [code |-> 1, PERMISSION_DENIED |-> undefined, POSITION_UNAVAILABLE |-> undefined,
   TIMEOUT |-> undefined, message |-> "not-allowed"]

\* what the service throws when it refuses a call
Exception ==
  [code |-> undefined, PERMISSION_DENIED |-> undefined, POSITION_UNAVAILABLE |-> undefined,
   TIMEOUT |-> undefined, message |-> "exception"]

NoError ==
  [code |-> undefined, PERMISSION_DENIED |-> undefined, POSITION_UNAVAILABLE |-> undefined,
   TIMEOUT |-> undefined, message |-> ""]

ErrorCodes == {1, 2, 3}
UnloadReasons == {"disable", "shutdown"}

VARIABLES
  GEO_API_V1,    \* provider revision, fixed at load
  pref,          \* the persisted ALLOW_GEOLOCATION_PREF entry
  allowed,       \* privateAPI.allowed
  options,       \* privateAPI.options
  watchID,       \* privateAPI.watchID
  position,      \* privateAPI.position (a reference or null)
  address,       \* privateAPI.address
  deferred,      \* the deferreds created so far, by call number
  svcWatches,    \* watch ids currently registered with the service
  svcIssued,     \* watch id -> call whose closures the registration holds
  svcRequests,   \* one-shot requests the service has not answered yet
  nextWatchID,   \* the id the service returns from its next watchPosition
  svcOptions,    \* call -> the options the service was given with the call
  nDeliver,      \* callbacks delivered
  last           \* what the last step did (history)

vars == <<GEO_API_V1, pref, allowed, options, watchID, position, address,
          deferred, svcWatches, svcIssued, svcRequests, nextWatchID,
          svcOptions, nDeliver, last>>

\* The objects the service hands out, by reference.  References 1 and 2 are
\* two distinct objects with equal field values.
Heap(r) ==
  [timestamp |-> 100,
   coords |-> [latitude |-> IF r <= 2 THEN 10 ELSE 10 + r, longitude |-> 20,
               accuracy |-> 30, altitude |-> 5, altitudeAccuracy |-> 2,
               heading |-> 90, speed |-> 1],
   address |-> IF GEO_API_V1 THEN 500 + r ELSE null]

\* ---- preference store ----
PrefStates == {[isSet |-> FALSE, value |-> FALSE],
               [isSet |-> TRUE, value |-> FALSE],
               [isSet |-> TRUE, value |-> TRUE]}

\* PrefSvc.get(name, defaultValue)
PrefGet(p, default) == IF p.isSet THEN p.value ELSE default

\* PrefSvc.set(name, value)
PrefSet(value) == [isSet |-> TRUE, value |-> value]

\* ---- notifications and service calls made in one step ----
CoordsEvent(p) == [type |-> "coords", ref |-> p, kind |-> "", timeout |-> 0]
AddressEvent(a) == [type |-> "address", ref |-> a, kind |-> "", timeout |-> 0]
ErrorEvent(kind, t) == [type |-> "error", ref |-> null, kind |-> kind, timeout |-> t]
NoArg == 0   \* emit() was given no further argument

SvcCall(fn, id, ok) == [fn |-> fn, id |-> id, ok |-> ok]

Pending == [state |-> "pending", value |-> null, reason |-> NoError]
Resolved(v) == [state |-> "resolved", value |-> v, reason |-> NoError]
Rejected(e) == [state |-> "rejected", value |-> null, reason |-> e]

ResolveOverwrite(d, v) == Resolved(v)

\* deferred.resolve / deferred.reject settle a deferred only once
Resolve(d, v) == IF d.state = "pending" THEN Resolved(v) ELSE d
Reject(d, e) == IF d.state = "pending" THEN Rejected(e) ELSE d

\* what a step did: the method or callback that ran, its arguments, the
\* calls it made to the service and the notifications it emitted
NoLast ==
  [op |-> "init", call |-> 0, sample |-> null, code |-> 0, reason |-> "",
   allow |-> FALSE, prefWrites |-> <<>>,
   threw |-> FALSE, svc |-> <<>>, emitted |-> <<>>]

\* ---- the methods of GeolocationClass ----

getAllowedIgnored(a) == TRUE

\* get allowed()
getAllowed(a) == a

isWatchingTruthy(w) == w # null /\ w # 0

\* isWatching()
isWatching(w) == w # null

stopWatchingKeepHandle(w) ==
  IF isWatching(w)
    THEN [watchID |-> w, svc |-> <<SvcCall("clearWatch", w, TRUE)>>]
    ELSE [watchID |-> w, svc |-> <<>>]

\* stopWatching(): the handle afterwards and the service calls made
stopWatching(w) ==
  IF isWatching(w)
    THEN [watchID |-> null, svc |-> <<SvcCall("clearWatch", w, TRUE)>>]
    ELSE [watchID |-> w, svc |-> <<>>]

setAllowedNoStop(allow, w) ==
  [allowed |-> allow, pref |-> PrefSet(allow), prefWrites |-> <<allow>>,
   watchID |-> w, svc |-> <<>>]

setAllowedWriteOnChange(allow, w) ==
  LET sw == IF ~allow THEN stopWatching(w) ELSE [watchID |-> w, svc |-> <<>>]
  IN [allowed |-> allow,
      pref |-> IF allow # allowed THEN PrefSet(allow) ELSE pref,
      prefWrites |-> IF allow # allowed THEN <<allow>> ELSE <<>>,
      watchID |-> sw.watchID, svc |-> sw.svc]

setAllowedStopOnAllow(allow, w) ==
  LET sw == IF allow THEN stopWatching(w) ELSE [watchID |-> w, svc |-> <<>>]
  IN [allowed |-> allow, pref |-> PrefSet(allow), prefWrites |-> <<allow>>,
      watchID |-> sw.watchID, svc |-> sw.svc]

\* set allowed(allow): the fields afterwards, the values written to the
\* preference and the service calls made
setAllowed(allow, w) ==
  LET sw == IF ~allow THEN stopWatching(w) ELSE [watchID |-> w, svc |-> <<>>]
  IN [allowed |-> allow, pref |-> PrefSet(allow), prefWrites |-> <<allow>>,
      watchID |-> sw.watchID, svc |-> sw.svc]

\* _onerror(e): the notifications emitted; t is this.timeout
onerror(e, t) ==
  IF e.code = e.PERMISSION_DENIED THEN <<ErrorEvent("permission-denied", NoArg)>>
  ELSE IF e.code = e.POSITION_UNAVAILABLE THEN <<ErrorEvent("position-unavailable", NoArg)>>
  ELSE IF e.code = e.TIMEOUT THEN <<ErrorEvent("timeout", t)>>
  ELSE <<>>

ChangedByValue(p, cached) == cached = null \/ Heap(p).coords # Heap(cached).coords

\* position != namespace(this).position: comparison of references
Changed(p, cached) == p # cached

\* ---- the property getters; pos is namespace(this).position ----

\* get position()
positionGetter(pos) == pos

\* get coords() is an object exactly when a position is cached
hasCoords(pos) == pos # null

\* get timestamp()
timestampGetter(pos) == IF pos # null THEN Heap(pos).timestamp ELSE null

\* get latitude()
latitudeGetter(pos) == IF hasCoords(pos) THEN Heap(pos).coords.latitude ELSE EmptyString

\* get longitude()
longitudeGetter(pos) == IF hasCoords(pos) THEN Heap(pos).coords.longitude ELSE EmptyString

\* get accuracy()
accuracyGetter(pos) == IF hasCoords(pos) THEN Heap(pos).coords.accuracy ELSE null

\* get altitude()
altitudeGetter(pos) == IF hasCoords(pos) THEN Heap(pos).coords.altitude ELSE null

\* get altitudeAccuracy()
altitudeAccuracyGetter(pos) ==
  IF hasCoords(pos) THEN Heap(pos).coords.altitudeAccuracy ELSE null

\* get heading()
headingGetter(pos) == IF hasCoords(pos) THEN Heap(pos).coords.heading ELSE null

\* get speed()
speedGetter(pos) == IF hasCoords(pos) THEN Heap(pos).coords.speed ELSE null

\* get address(): (this.position.address) ? this.position.address : null.
\* this.position is dereferenced unguarded, so the read throws while no
\* position is cached.
addressGetter(pos) ==
  IF pos = null THEN TypeError
  ELSE IF Heap(pos).address # null THEN Heap(pos).address ELSE null

addressCapableAlways(v1) == TRUE

\* if (this.GEO_API_V1) in _setposition
addressCapable(v1) == v1

\* _setposition(position): the cache afterwards and the notifications emitted
setposition(p, cached, addr) ==
  IF Changed(p, cached)
    THEN [position |-> p,
          address |-> IF addressCapable(GEO_API_V1) THEN Heap(p).address ELSE addr,
          emitted |-> <<CoordsEvent(p)>> \o
                      (IF addressCapable(GEO_API_V1)
                         THEN <<AddressEvent(addressGetter(p))>> ELSE <<>>)]
    ELSE [position |-> cached, address |-> addr, emitted |-> <<>>]

alreadyWatchingNeverSettles(pos) == Pending

\* deferred.resolve(this.position) when a watch is already active
alreadyWatching(pos) == Resolved(pos)

registerWatchDangling(ok, w, id) == id

\* privateAPI.watchID = GeolocationSvc.watchPosition(...): no assignment
\* happens when the call throws
registerWatch(ok, w, id) == IF ok THEN id ELSE w

\* the service's registrations after the calls of one step
ApplySvc(calls) ==
  (svcWatches \ {calls[i].id : i \in {j \in DOMAIN calls : calls[j].fn = "clearWatch"}})
  \cup {calls[i].id : i \in {j \in DOMAIN calls : calls[j].fn = "watchPosition" /\ calls[j].ok}}

initialAllowedDefaultTrue(p) == PrefGet(p, TRUE)

\* PrefSvc.get(this.ALLOW_GEOLOCATION_PREF, false)
initialAllowed(p) == PrefGet(p, FALSE)

Init ==
  /\ GEO_API_V1 \in BOOLEAN
  /\ pref \in PrefStates
  /\ allowed = initialAllowed(pref)
  /\ options = [enableHighAccuracy |-> FALSE, timeout |-> DefaultTimeout]
  /\ watchID = null
  /\ position = null
  /\ address = undefined
  /\ deferred = <<>>
  /\ svcWatches = {}
  /\ svcIssued = <<>>
  /\ svcRequests = {}
  /\ svcOptions = <<>>
  /\ nextWatchID = 0
  /\ nDeliver = 0
  /\ last = NoLast

\* set timeout(timeout)
SetTimeout(t) ==
  /\ options' = [options EXCEPT !.timeout = t]
  /\ last' = [NoLast EXCEPT !.op = "setTimeout"]
  /\ UNCHANGED <<GEO_API_V1, pref, allowed, watchID, position, address, deferred,
                 svcWatches, svcIssued, svcRequests, nextWatchID, svcOptions, nDeliver>>

SetAllowedClearsPosition(allow) ==
  LET r == setAllowed(allow, watchID) IN
  /\ allowed' = r.allowed
  /\ pref' = r.pref
  /\ watchID' = r.watchID
  /\ position' = IF ~allow THEN null ELSE position
  /\ svcWatches' = ApplySvc(r.svc)
  /\ last' = [NoLast EXCEPT !.op = "setAllowed", !.allow = allow,
                !.prefWrites = r.prefWrites, !.svc = r.svc]
  /\ UNCHANGED <<GEO_API_V1, options, address, deferred,
                 svcIssued, svcRequests, nextWatchID, svcOptions, nDeliver>>

\* Geolocation.allowed = allow
SetAllowed(allow) ==
  LET r == setAllowed(allow, watchID) IN
  /\ allowed' = r.allowed
  /\ pref' = r.pref
  /\ watchID' = r.watchID
  /\ svcWatches' = ApplySvc(r.svc)
  /\ last' = [NoLast EXCEPT !.op = "setAllowed", !.allow = allow,
                !.prefWrites = r.prefWrites, !.svc = r.svc]
  /\ UNCHANGED <<GEO_API_V1, options, position, address, deferred,
                 svcIssued, svcRequests, nextWatchID, svcOptions, nDeliver>>

\* Geolocation.stopWatching()
StopWatching ==
  LET r == stopWatching(watchID) IN
  /\ watchID' = r.watchID
  /\ svcWatches' = ApplySvc(r.svc)
  /\ last' = [NoLast EXCEPT !.op = "stopWatching", !.svc = r.svc]
  /\ UNCHANGED <<GEO_API_V1, pref, allowed, options, position, address, deferred,
                 svcIssued, svcRequests, nextWatchID, svcOptions, nDeliver>>

unloadDisablesOnUninstall(reason) == reason = "uninstall"

\* reason === "disable"
unloadDisables(reason) == reason = "disable"

\* unload(reason)
Unload(reason) ==
  LET sw == stopWatching(watchID)
      r == IF unloadDisables(reason)
             THEN setAllowed(FALSE, sw.watchID)
             ELSE [allowed |-> allowed, pref |-> pref, prefWrites |-> <<>>,
                   watchID |-> sw.watchID, svc |-> <<>>]
  IN
  /\ allowed' = r.allowed
  /\ pref' = r.pref
  /\ watchID' = r.watchID
  /\ svcWatches' = ApplySvc(sw.svc \o r.svc)
  /\ last' = [NoLast EXCEPT !.op = "unload", !.reason = reason,
                !.allow = r.allowed, !.prefWrites = r.prefWrites,
                !.svc = sw.svc \o r.svc]
  /\ UNCHANGED <<GEO_API_V1, options, position, address, deferred,
                 svcIssued, svcRequests, nextWatchID, svcOptions, nDeliver>>

\* Geolocation.getCurrentPosition().  The service either accepts the request
\* (ok) or throws at call time; nothing catches that exception.
GetCurrentPosition ==
  /\ Len(deferred) + nDeliver < MaxSteps
  /\ LET c == Len(deferred) + 1 IN
     IF getAllowed(allowed)
       THEN \E ok \in BOOLEAN :
              /\ deferred' = Append(deferred, Pending)
              /\ svcRequests' = IF ok THEN svcRequests \cup {c} ELSE svcRequests
              /\ svcOptions' = IF ok THEN (c :> options) @@ svcOptions ELSE svcOptions
              /\ last' = [NoLast EXCEPT !.op = "getCurrentPosition", !.call = c,
                            !.svc = <<SvcCall("getCurrentPosition", c, ok)>>,
                            !.threw = ~ok]
       ELSE /\ deferred' = Append(deferred, Reject(Pending, ALLOWED_ERROR))
            /\ last' = [NoLast EXCEPT !.op = "getCurrentPosition", !.call = c,
                          !.emitted = onerror(ALLOWED_ERROR, options.timeout)]
            /\ UNCHANGED <<svcRequests, svcOptions>>
  /\ UNCHANGED <<GEO_API_V1, pref, allowed, options, watchID, position, address,
                 svcWatches, svcIssued, nextWatchID, nDeliver>>

\* Geolocation.watchPosition().  A throw of the service's watchPosition is
\* caught and rejects the deferred.
WatchPosition ==
  /\ Len(deferred) + nDeliver < MaxSteps
  /\ LET c == Len(deferred) + 1 IN
     IF getAllowed(allowed)
       THEN IF ~isWatching(watchID)
              THEN \E ok \in BOOLEAN :
                     LET call == SvcCall("watchPosition", nextWatchID, ok) IN
                     /\ watchID' = registerWatch(ok, watchID, nextWatchID)
                     /\ nextWatchID' = IF ok THEN nextWatchID + 1 ELSE nextWatchID
                     /\ svcWatches' = ApplySvc(<<call>>)
                     /\ svcIssued' = IF ok THEN (nextWatchID :> c) @@ svcIssued ELSE svcIssued
                     /\ svcOptions' = IF ok THEN (c :> options) @@ svcOptions ELSE svcOptions
                     /\ deferred' = Append(deferred, IF ok THEN Pending
                                                          ELSE Reject(Pending, Exception))
                     /\ last' = [NoLast EXCEPT !.op = "watchPosition", !.call = c,
                                   !.svc = <<call>>]
              ELSE /\ deferred' = Append(deferred, alreadyWatching(position))
                   /\ last' = [NoLast EXCEPT !.op = "watchPosition", !.call = c]
                   /\ UNCHANGED <<watchID, nextWatchID, svcWatches, svcIssued, svcOptions>>
       ELSE LET sw == stopWatching(watchID) IN
            /\ watchID' = sw.watchID
            /\ svcWatches' = ApplySvc(sw.svc)
            /\ deferred' = Append(deferred, Reject(Pending, ALLOWED_ERROR))
            /\ last' = [NoLast EXCEPT !.op = "watchPosition", !.call = c, !.svc = sw.svc,
                          !.emitted = onerror(ALLOWED_ERROR, options.timeout)]
            /\ UNCHANGED <<nextWatchID, svcIssued, svcOptions>>
  /\ UNCHANGED <<GEO_API_V1, pref, allowed, options, position, address,
                 svcRequests, nDeliver>>

\* ---- the service's callbacks ----

RequestSuccessWhileAllowed(c, p) ==
  /\ Len(deferred) + nDeliver < MaxSteps
  /\ c \in svcRequests
  /\ LET sp == IF allowed THEN setposition(p, position, address)
                          ELSE [position |-> position, address |-> address,
                                emitted |-> <<>>] IN
     /\ position' = sp.position
     /\ address' = sp.address
     /\ deferred' = [deferred EXCEPT ![c] = IF allowed THEN Resolve(@, p) ELSE @]
     /\ last' = [NoLast EXCEPT !.op = "requestSuccess", !.call = c, !.sample = p,
                   !.emitted = sp.emitted]
  /\ svcRequests' = svcRequests \ {c}
  /\ nDeliver' = nDeliver + 1
  /\ UNCHANGED <<GEO_API_V1, pref, allowed, options, watchID,
                 svcWatches, svcIssued, svcOptions, nextWatchID>>

\* success(position) of getCurrentPosition, lines 256-259
RequestSuccess(c, p) ==
  /\ Len(deferred) + nDeliver < MaxSteps
  /\ c \in svcRequests
  /\ LET sp == setposition(p, position, address) IN
     /\ position' = sp.position
     /\ address' = sp.address
     /\ deferred' = [deferred EXCEPT ![c] = Resolve(@, p)]
     /\ last' = [NoLast EXCEPT !.op = "requestSuccess", !.call = c, !.sample = p,
                   !.emitted = sp.emitted]
  /\ svcRequests' = svcRequests \ {c}
  /\ nDeliver' = nDeliver + 1
  /\ UNCHANGED <<GEO_API_V1, pref, allowed, options, watchID,
                 svcWatches, svcIssued, svcOptions, nextWatchID>>

RequestFailCallTimeTimeout(c, code) ==
  /\ Len(deferred) + nDeliver < MaxSteps
  /\ c \in svcRequests
  /\ deferred' = [deferred EXCEPT ![c] = Reject(@, PositionError(code))]
  /\ last' = [NoLast EXCEPT !.op = "requestFail", !.call = c, !.code = code,
                !.emitted = onerror(PositionError(code), svcOptions[c].timeout)]
  /\ svcRequests' = svcRequests \ {c}
  /\ nDeliver' = nDeliver + 1
  /\ UNCHANGED <<GEO_API_V1, pref, allowed, options, watchID, position, address,
                 svcWatches, svcIssued, svcOptions, nextWatchID>>

\* fail(positionError) of getCurrentPosition, lines 260-263
RequestFail(c, code) ==
  /\ Len(deferred) + nDeliver < MaxSteps
  /\ c \in svcRequests
  /\ deferred' = [deferred EXCEPT ![c] = Reject(@, PositionError(code))]
  /\ last' = [NoLast EXCEPT !.op = "requestFail", !.call = c, !.code = code,
                !.emitted = onerror(PositionError(code), options.timeout)]
  /\ svcRequests' = svcRequests \ {c}
  /\ nDeliver' = nDeliver + 1
  /\ UNCHANGED <<GEO_API_V1, pref, allowed, options, watchID, position, address,
                 svcWatches, svcIssued, svcOptions, nextWatchID>>

\* success(position) of watchPosition, lines 302-305.  The service may run
\* the callback of a registration any number of times, and a callback it had
\* already queued still runs after clearWatch (late).
WatchSuccess(w, p) ==
  /\ Len(deferred) + nDeliver < MaxSteps
  /\ w \in DOMAIN svcIssued
  /\ LET c == svcIssued[w]
         sp == setposition(p, position, address) IN
     /\ position' = sp.position
     /\ address' = sp.address
     /\ deferred' = [deferred EXCEPT ![c] = Resolve(@, p)]
     /\ last' = [NoLast EXCEPT !.op = "watchSuccess", !.call = c, !.sample = p,
                   !.emitted = sp.emitted]
  /\ nDeliver' = nDeliver + 1
  /\ UNCHANGED <<GEO_API_V1, pref, allowed, options, watchID,
                 svcWatches, svcIssued, svcRequests, svcOptions, nextWatchID>>

WatchFailStopsWatch(w, code) ==
  /\ Len(deferred) + nDeliver < MaxSteps
  /\ w \in DOMAIN svcIssued
  /\ LET c == svcIssued[w]
         sw == stopWatching(watchID) IN
     /\ deferred' = [deferred EXCEPT ![c] = Reject(@, PositionError(code))]
     /\ watchID' = sw.watchID
     /\ svcWatches' = ApplySvc(sw.svc)
     /\ last' = [NoLast EXCEPT !.op = "watchFail", !.call = c, !.code = code,
                   !.svc = sw.svc,
                   !.emitted = onerror(PositionError(code), options.timeout)]
  /\ nDeliver' = nDeliver + 1
  /\ UNCHANGED <<GEO_API_V1, pref, allowed, options, position, address,
                 svcIssued, svcRequests, svcOptions, nextWatchID>>

\* fail(positionError) of watchPosition, lines 306-309
WatchFail(w, code) ==
  /\ Len(deferred) + nDeliver < MaxSteps
  /\ w \in DOMAIN svcIssued
  /\ LET c == svcIssued[w] IN
     /\ deferred' = [deferred EXCEPT ![c] = Reject(@, PositionError(code))]
     /\ last' = [NoLast EXCEPT !.op = "watchFail", !.call = c, !.code = code,
                   !.emitted = onerror(PositionError(code), options.timeout)]
  /\ nDeliver' = nDeliver + 1
  /\ UNCHANGED <<GEO_API_V1, pref, allowed, options, watchID, position, address,
                 svcWatches, svcIssued, svcRequests, svcOptions, nextWatchID>>

Next ==
  \/ \E t \in Timeouts : SetTimeout(t)
  \/ \E allow \in BOOLEAN : SetAllowed(allow)
  \/ StopWatching
  \/ \E reason \in UnloadReasons : Unload(reason)
  \/ GetCurrentPosition
  \/ WatchPosition
  \/ \E c \in svcRequests, p \in SampleRefs : RequestSuccess(c, p)
  \/ \E c \in svcRequests, code \in ErrorCodes : RequestFail(c, code)
  \/ \E w \in DOMAIN svcIssued, p \in SampleRefs : WatchSuccess(w, p)
  \/ \E w \in DOMAIN svcIssued, code \in ErrorCodes : WatchFail(w, code)

Spec == Init /\ [][Next]_vars

TypeOK ==
  /\ allowed \in BOOLEAN
  /\ watchID \in {null} \cup (0..MaxSteps)
  /\ position \in {null} \cup SampleRefs
  /\ Len(deferred) + nDeliver <= MaxSteps

\* ---- properties ----

GatedOps == {"getCurrentPosition", "watchPosition"}
SuccessOps == {"requestSuccess", "watchSuccess"}
FailOps == {"requestFail", "watchFail"}

\* the watch whose closures belong to call c is not the one whose handle is stored
HandleCleared(c) == \E w \in DOMAIN svcIssued : svcIssued[w] = c /\ w # watchID

HasEvent(events, type) == \E i \in DOMAIN events : events[i].type = type

\* the kind of error notification that belongs to a provider error code
KindOf(code) ==
  IF code = 1 THEN "permission-denied"
  ELSE IF code = 2 THEN "position-unavailable" ELSE "timeout"

\* C1: while allowed is false, getCurrentPosition() and watchPosition() make
\* no call to the service (no request, no registration) and return a handle
\* rejected with the not-allowed error.
C1_GatedCallsBlocked ==
  [][(~allowed /\ last'.op \in GatedOps) =>
       /\ last'.svc = <<>>
       /\ svcRequests' = svcRequests
       /\ svcWatches' = svcWatches
       /\ svcIssued' = svcIssued
       /\ last'.call = Len(deferred) + 1
       /\ deferred' = Append(deferred, Rejected(ALLOWED_ERROR))]_vars

C1_Witness ==
  /\ ~allowed
  /\ last.op = "watchPosition"
  /\ last.svc = <<>>
  /\ Len(deferred) = 2
  /\ deferred[1] = Rejected(ALLOWED_ERROR)
  /\ deferred[2] = Rejected(ALLOWED_ERROR)
  /\ svcRequests = {} /\ svcWatches = {}

\* C2: a success callback delivered for a watch whose stored handle has been
\* cleared is ignored: it emits nothing and leaves the cached sample as it was.
C2_LateCallbackIgnored ==
  [][(last'.op = "watchSuccess" /\ HandleCleared(last'.call)) =>
       (last'.emitted = <<>> /\ position' = position)]_vars

\* C3: assigning false to allowed while a watch is active calls clearWatch
\* with the stored handle and clears the handle within the assignment, so
\* isWatching() is false right after it.
C3_RevokeStopsWatch ==
  [][(last'.op = "setAllowed" /\ ~allowed' /\ watchID # null) =>
       /\ last'.svc = <<SvcCall("clearWatch", watchID, TRUE)>>
       /\ svcWatches' = svcWatches \ {watchID}
       /\ watchID' = null
       /\ ~isWatching(watchID')]_vars

C3_Witness ==
  /\ last.op = "setAllowed"
  /\ ~allowed
  /\ Len(last.svc) = 1 /\ last.svc[1].fn = "clearWatch"
  /\ last.svc[1].id \in DOMAIN svcIssued
  /\ ~isWatching(watchID)
  /\ svcWatches = {}

\* C4: at most one watch is registered with the service, and the stored
\* handle is non-null (isWatching() is true) exactly when one is registered,
\* in which case it is the handle of that registration.
C4_SingleWatch ==
  /\ Cardinality(svcWatches) <= 1
  /\ isWatching(watchID) <=> svcWatches # {}
  /\ watchID # null <=> svcWatches # {}
  /\ watchID # null => svcWatches = {watchID}

C4_Witness ==
  /\ isWatching(watchID)
  /\ watchID = 1
  /\ svcWatches = {1}
  /\ DOMAIN svcIssued = {0, 1}

\* C5: watchPosition() while allowed and already watching makes no service
\* call, leaves the handle and the cached sample unchanged and resolves its
\* handle at once with the cached sample.
C5_AlreadyWatchingNoop ==
  [][(last'.op = "watchPosition" /\ allowed /\ watchID # null) =>
       /\ last'.svc = <<>>
       /\ ~last'.threw
       /\ watchID' = watchID
       /\ position' = position
       /\ svcWatches' = svcWatches
       /\ svcIssued' = svcIssued
       /\ deferred' = Append(deferred, Resolved(position))]_vars

C5_Witness ==
  /\ last.op = "watchPosition"
  /\ allowed
  /\ last.svc = <<>>
  /\ watchID = 0
  /\ svcIssued[0] = 1
  /\ position # null
  /\ deferred[last.call] = Resolved(position)

\* C6: a success callback replaces the cached sample and emits coords exactly
\* when the delivered object is not the cached object; the cached object
\* delivered again emits nothing and leaves the cache unchanged.
C6_IdentityChangeDetection ==
  [][(last'.op \in SuccessOps) =>
       LET p == last'.sample IN
       IF p # position
         THEN /\ position' = p
              /\ last'.emitted =
                   <<CoordsEvent(p)>> \o
                   (IF GEO_API_V1 THEN <<AddressEvent(Heap(p).address)>> ELSE <<>>)
         ELSE /\ position' = position
              /\ last'.emitted = <<>>]_vars

\* the second of two deliveries handed over a distinct object with the field
\* values of the first, and coords was emitted for it
C6_Witness ==
  /\ last.op = "watchSuccess"
  /\ nDeliver = 2
  /\ deferred[1] = Resolved(1)
  /\ last.sample = 2
  /\ position = 2
  /\ Heap(1).coords = Heap(2).coords
  /\ HasEvent(last.emitted, "coords")

\* C7: a call blocked by the permission gate emits an error notification in
\* addition to rejecting its handle.
C7_GateEmitsError ==
  [][(~allowed /\ last'.op \in GatedOps) =>
       /\ HasEvent(last'.emitted, "error")
       /\ deferred'[last'.call].state = "rejected"]_vars

\* C8: a failure callback with code 1, 2 or 3 emits exactly one error
\* notification of the matching kind, the timeout kind carrying the timeout
\* configured when the failure is delivered, and rejects the handle of its
\* call if that handle is still pending.
C8_ProviderErrorClassified ==
  [][(last'.op \in FailOps) =>
       LET code == last'.code
           c == last'.call
       IN /\ last'.emitted =
               <<ErrorEvent(KindOf(code), IF code = 3 THEN options.timeout ELSE NoArg)>>
          /\ options' = options
          /\ deferred' = [deferred EXCEPT
                            ![c] = IF @.state = "pending"
                                     THEN Rejected(PositionError(code)) ELSE @]]_vars

C8_Witness ==
  /\ last.op = "requestFail"
  /\ last.code = 3
  /\ svcOptions[last.call].timeout # options.timeout
  /\ last.emitted = <<ErrorEvent("timeout", options.timeout)>>
  /\ deferred[last.call] = Rejected(PositionError(3))

\* C9: getCurrentPosition() and watchPosition() never throw; every failure
\* is reported through the returned handle.
C9_NeverThrows == last.op \in GatedOps => ~last.threw

\* C10: when the service's watchPosition throws inside watchPosition()
\* (allowed, no watch active), the returned handle is rejected and no handle
\* is stored; every watchPosition() made while allowed with no watch active
\* calls the service's watchPosition, so a later call tries again.
C10_RegistrationFailure ==
  [][(last'.op = "watchPosition" /\ allowed /\ watchID = null) =>
       /\ Len(last'.svc) = 1
       /\ last'.svc[1].fn = "watchPosition"
       /\ ~last'.threw
       /\ ~last'.svc[1].ok =>
            /\ deferred' = Append(deferred, Rejected(Exception))
            /\ watchID' = null
            /\ ~isWatching(watchID')
            /\ svcWatches' = svcWatches
            /\ svcIssued' = svcIssued]_vars

C10_Witness ==
  /\ last.op = "watchPosition"
  /\ last.call = 2
  /\ deferred[1] = Rejected(Exception)
  /\ last.svc = <<SvcCall("watchPosition", 0, TRUE)>>
  /\ watchID = 0
  /\ svcWatches = {0}

\* C11: after every assignment to allowed, the value read back is the
\* assigned value and is the value stored in the preference, and the
\* assignment wrote the preference.
C11_AllowedPersisted ==
  [][(last'.op = "setAllowed") =>
       /\ getAllowed(allowed') = last'.allow
       /\ pref'.isSet
       /\ PrefGet(pref', ~last'.allow) = last'.allow
       /\ last'.prefWrites = <<last'.allow>>]_vars

\* allowed was true when a call reached the service and has now been
\* assigned false
C11_Witness ==
  /\ last.op = "setAllowed"
  /\ ~last.allow
  /\ ~allowed
  /\ pref = PrefSet(FALSE)
  /\ DOMAIN svcOptions # {}

\* C12: right after construction there is no watch handle and no cached
\* sample, and allowed is false when no preference is persisted and the
\* persisted value otherwise.
C12_ConstructionDefaults ==
  last.op = "init" =>
    /\ watchID = null
    /\ ~isWatching(watchID)
    /\ position = null
    /\ ~pref.isSet => allowed = FALSE
    /\ pref.isSet => allowed = pref.value

C12_Witness ==
  /\ last.op = "init"
  /\ ~pref.isSet
  /\ allowed = FALSE
  /\ watchID = null
  /\ position = null

C14_EmptyValuesWithoutSample ==
  position = null =>
    /\ latitudeGetter(position) = EmptyString
    /\ longitudeGetter(position) = EmptyString
    /\ accuracyGetter(position) = null
    /\ altitudeGetter(position) = null
    /\ altitudeAccuracyGetter(position) = null
    /\ headingGetter(position) = null
    /\ speedGetter(position) = null
    /\ addressGetter(position) = null

\* C15: unload with any reason stops an active watch, so isWatching() is
\* false afterwards; with reason disable it also sets allowed and the
\* persisted flag to false; with any other reason it leaves both unchanged.
C15_Teardown ==
  [][(last'.op = "unload") =>
       /\ watchID' = null
       /\ ~isWatching(watchID')
       /\ svcWatches' = svcWatches \ {watchID}
       /\ last'.svc = IF watchID # null THEN <<SvcCall("clearWatch", watchID, TRUE)>>
                                         ELSE <<>>
       /\ IF last'.reason = "disable"
            THEN allowed' = FALSE /\ pref' = PrefSet(FALSE)
            ELSE allowed' = allowed /\ pref' = pref /\ last'.prefWrites = <<>>]_vars

C15_Witness ==
  /\ last.op = "unload"
  /\ last.reason = "disable"
  /\ last.svc = <<SvcCall("clearWatch", 0, TRUE)>>
  /\ ~isWatching(watchID)
  /\ allowed = FALSE
  /\ pref = PrefSet(FALSE)
  /\ svcWatches = {}

\* C16: stopWatching() with an active handle calls clearWatch once with that
\* handle and clears it; with no handle it makes no service call and changes
\* nothing; a second call right after any call is therefore without effect.
C16_StopWatchingIdempotent ==
  [][(last'.op = "stopWatching") =>
       /\ IF watchID # null
            THEN /\ last'.svc = <<SvcCall("clearWatch", watchID, TRUE)>>
                 /\ watchID' = null
                 /\ svcWatches' = svcWatches \ {watchID}
            ELSE /\ last'.svc = <<>>
                 /\ watchID' = watchID
                 /\ svcWatches' = svcWatches
       /\ UNCHANGED <<GEO_API_V1, pref, allowed, options, position, address, deferred,
                      svcIssued, svcRequests, nextWatchID, svcOptions, nDeliver>>
       /\ stopWatching(watchID').svc = <<>>
       /\ stopWatching(watchID').watchID = watchID']_vars

\* stopWatching() ran with no handle stored although a watch had been
\* registered before
C16_Witness ==
  /\ last.op = "stopWatching"
  /\ last.svc = <<>>
  /\ allowed
  /\ DOMAIN svcIssued # {}
  /\ watchID = null
  /\ svcWatches = {}

\* the getCurrentPosition() calls that reached the service
RequestCalls ==
  {c \in DOMAIN svcOptions : \A w \in DOMAIN svcIssued : svcIssued[w] # c}

WatchCalls == {svcIssued[w] : w \in DOMAIN svcIssued}

C19_WatchImpliesAllowed ==
  /\ watchID # null => allowed
  /\ isWatching(watchID) => getAllowed(allowed)
  /\ svcWatches # {} => allowed

\* a watch registered after an earlier call had been refused by the gate
C19_Witness ==
  /\ isWatching(watchID)
  /\ allowed
  /\ last.op = "watchPosition"
  /\ last.call = 2
  /\ deferred[1] = Rejected(ALLOWED_ERROR)
  /\ svcWatches = {watchID}

\* C20: a failure callback delivered to the active watch leaves the handle
\* stored and the registration in place and makes no service call; a success
\* callback delivered after it still goes through change detection.
C20_ErrorKeepsWatch ==
  [][/\ (last'.op = "watchFail" /\ ~HandleCleared(last'.call)) =>
          /\ watchID' = watchID
          /\ isWatching(watchID')
          /\ svcWatches' = svcWatches
          /\ svcIssued' = svcIssued
          /\ nextWatchID' = nextWatchID
          /\ last'.svc = <<>>
          /\ HasEvent(last'.emitted, "error")
     /\ (last'.op = "watchSuccess" /\ ~HandleCleared(last'.call)
           /\ deferred[last'.call].state = "rejected") =>
          /\ isWatching(watchID')
          /\ position' = last'.sample
          /\ HasEvent(last'.emitted, "coords") <=> last'.sample # position]_vars

C20_Witness ==
  /\ last.op = "watchSuccess"
  /\ isWatching(watchID)
  /\ svcIssued[watchID] = last.call
  /\ deferred[last.call].state = "rejected"
  /\ deferred[last.call].reason.message = "provider"
  /\ position = last.sample
  /\ HasEvent(last.emitted, "coords")

\* C21: the cached sample changes only in a success callback, to the sample
\* delivered, and is never cleared; a cached sample therefore stays readable
\* through the getters, also while allowed is false.
C21_CacheNeverCleared ==
  [][/\ position # null => position' # null
     /\ position' # position =>
          (last'.op \in SuccessOps /\ position' = last'.sample)
     /\ position' # null =>
          /\ positionGetter(position') = position'
          /\ latitudeGetter(position') = Heap(position').coords.latitude
          /\ longitudeGetter(position') = Heap(position').coords.longitude
          /\ accuracyGetter(position') = Heap(position').coords.accuracy
          /\ timestampGetter(position') = Heap(position').timestamp
          /\ addressGetter(position') # TypeError]_vars

\* the sample cached while allowed was true is still cached right after
\* allowed was set to false
C21_Witness ==
  /\ last.op = "setAllowed"
  /\ ~allowed
  /\ nDeliver >= 1
  /\ positionGetter(position) \in SampleRefs
  /\ latitudeGetter(position) = Heap(position).coords.latitude
====
